---- MODULE Spec2Model ----
(***************************************************************************)
(* Model of the chess demo UI.                                             *)
(*                                                                         *)
(*   Spec      the grid-board app  (App.tsx 1-200, Board 874-1026,         *)
(*             ModeSelector.tsx)                                           *)
(*   SpecFn    the pure functions isValidMovePlaceholder / generateAIMove  *)
(*             applied to boards produced by executeMove                   *)
(*   SpecStr   the string-board app (App.tsx 201-873) without its lobby    *)
(*   SpecLobby MultiplayerLobby components of two browsers, wired to the   *)
(*             setters of their App, against one shared games table        *)
(*                                                                         *)
(* A piece tag 'wP' is the sequence of its two characters <<"w","P">>, so  *)
(* that piece[0] of the source is tag[1] here; null is the empty sequence. *)
(* A square {row, col} is <<row, col>>; a null square is <<>>.             *)
(* A string that the code searches or builds from parts is the sequence of *)
(* its characters or parts.                                                *)
(***************************************************************************)
EXTENDS Integers, Sequences, FiniteSets, TLC

VARIABLES
    mode, difficulty, board, currentPlayer, selectedSquare, statusMessage,
    showDifficulty,
    lastMove, moveCount, lastEvent,
    fnBoard, fnPlies, fnCall,
    sMode, sDifficulty, playerColor, gameState, gameLog, gameId, bSelected,
    aiReplies, aiEffects, lastClick,
    games, lobbyGames, isLoading, isCreating, fetchPending, createPending,
    joinPending, lMode, lPlayerColor, lGameId

gridVars == <<mode, difficulty, board, currentPlayer, selectedSquare,
              statusMessage, showDifficulty, lastMove, moveCount, lastEvent>>
fnVars == <<fnBoard, fnPlies, fnCall>>
strVars == <<sMode, sDifficulty, playerColor, gameState, gameLog, gameId,
             bSelected, aiReplies, aiEffects, lastClick>>
lobbyVars == <<games, lobbyGames, isLoading, isCreating, fetchPending,
               createPending, joinPending, lMode, lPlayerColor, lGameId>>
vars == <<gridVars, fnVars, strVars, lobbyVars>>

----------------------------------------------------------------------------
(* Bounds *)

\* executed moves between two resets
MaxMoves == 3
\* number of equally spaced values k/RandSteps that Math.random() is drawn from
RandSteps == 3
\* moves played before a pure function is applied (SpecFn)
FnMaxPlies == 1

\* entries of the game log of the string-board app
MaxLog == 3
\* getAIMove promises of one kind that are unresolved at a time
MaxPending == 2

\* the squares the modelled user clicks on: e8, e7, e4, e3, e2 and e1
ClickCols == {4}
ClickRows == {0, 1, 4, 5, 6, 7}
\* the squares of the moves handleHumanMove is called with directly: e7 and e2
CallRows == {1, 6}

----------------------------------------------------------------------------
(* Types *)

Null == <<>>
NoSquare == <<>>
NoColor == "null"

Colors == {"w", "b"}
PieceTypes == {"P", "N", "B", "R", "Q", "K"}
Piece == {<<c, t>> : c \in Colors, t \in PieceTypes} \cup {Null}
GameModes == {"local", "ai", "multiplayer"}
DIFFICULTY_LEVELS == <<"Beginner", "Easy", "Hard", "Master">>
Difficulty == {DIFFICULTY_LEVELS[i] : i \in 1..Len(DIFFICULTY_LEVELS)}

Idx == 0..7
Squares == Idx \X Idx
ClickSquares == {sq \in Squares : sq[1] \in ClickRows /\ sq[2] \in ClickCols}
CallSquares == {sq \in Squares : sq[1] \in CallRows /\ sq[2] \in ClickCols}

Row(s) == [c \in Idx |-> s[c + 1]]

BackRank(col) ==
    Row(<< <<col, "R">>, <<col, "N">>, <<col, "B">>, <<col, "Q">>,
           <<col, "K">>, <<col, "B">>, <<col, "N">>, <<col, "R">> >>)
PawnRank(col) == [c \in Idx |-> <<col, "P">>]
EmptyRank == [c \in Idx |-> Null]

INITIAL_BOARD ==
    [r \in Idx |->
        CASE r = 0 -> BackRank("b")
          [] r = 1 -> PawnRank("b")
          [] r = 6 -> PawnRank("w")
          [] r = 7 -> BackRank("w")
          [] OTHER -> EmptyRank]

getPieceColor(piece) == IF piece = Null THEN NoColor ELSE piece[1]

At(b, sq) == b[sq[1]][sq[2]]

----------------------------------------------------------------------------
(* Move validation of the board component *)

\* variant: the own-piece test on the target square is missing
isValidMovePlaceholder_NoTargetTest(b, from, to, piece, player) ==
    IF piece = Null \/ getPieceColor(piece) # player THEN FALSE
    ELSE IF to[1] = from[1] /\ to[2] = from[2] THEN FALSE
    ELSE TRUE

\* variant: a rook-like shape test is added
isValidMovePlaceholder_RookShape(b, from, to, piece, player) ==
    IF piece = Null \/ getPieceColor(piece) # player THEN FALSE
    ELSE IF to[1] = from[1] /\ to[2] = from[2] THEN FALSE
    ELSE IF getPieceColor(At(b, to)) = player THEN FALSE
    ELSE to[1] = from[1] \/ to[2] = from[2]

\* variant: a move onto a king is refused
isValidMovePlaceholder_NoKingCapture(b, from, to, piece, player) ==
    IF piece = Null \/ getPieceColor(piece) # player THEN FALSE
    ELSE IF to[1] = from[1] /\ to[2] = from[2] THEN FALSE
    ELSE IF getPieceColor(At(b, to)) = player THEN FALSE
    ELSE At(b, to) = Null \/ At(b, to)[2] # "K"

isValidMovePlaceholder(b, from, to, piece, player) ==
    IF piece = Null \/ getPieceColor(piece) # player THEN FALSE
    ELSE IF to[1] = from[1] /\ to[2] = from[2] THEN FALSE
    ELSE IF getPieceColor(At(b, to)) = player THEN FALSE
    ELSE TRUE

----------------------------------------------------------------------------
(* The AI's move generator *)

opponentColor == "b"

\* the squares in the order of the two nested loops tr, tc over 0..7
LoopOrder == [i \in 1..64 |-> <<(i - 1) \div 8, (i - 1) % 8>>]

MoveOf(b, from, to) == [from |-> from, to |-> to, piece |-> At(b, from)]

\* variant: the own-piece test on the target square is missing
AIPushCondition_NoOwnTest(b, from, to) ==
    from[1] # to[1] \/ from[2] # to[2]

\* the test of generateAIMove's inner loops tr, tc
AIPushCondition(b, from, to) ==
    /\ (from[1] # to[1] \/ from[2] # to[2])
    /\ getPieceColor(At(b, to)) # opponentColor

\* the moves the inner loops push for the piece on from
MovesOfPiece(b, from) ==
    LET MoveTo(to) == MoveOf(b, from, to)
        targets == SelectSeq(LoopOrder, LAMBDA to : AIPushCondition(b, from, to))
    IN  [i \in 1..Len(targets) |-> MoveTo(targets[i])]

\* one pass of the body of the loop c: what it pushes for the square r, c
MovesFromSquare(b, r, c) ==
    IF getPieceColor(b[r][c]) = opponentColor THEN MovesOfPiece(b, <<r, c>>) ELSE <<>>

\* one pass of the body of the loop r: the loop c over 0..7
MovesFromRow(b, r) ==
    MovesFromSquare(b, r, 0) \o MovesFromSquare(b, r, 1) \o MovesFromSquare(b, r, 2)
    \o MovesFromSquare(b, r, 3) \o MovesFromSquare(b, r, 4) \o MovesFromSquare(b, r, 5)
    \o MovesFromSquare(b, r, 6) \o MovesFromSquare(b, r, 7)

\* the loop r over 0..7
allPossibleMoves(b) ==
    MovesFromRow(b, 0) \o MovesFromRow(b, 1) \o MovesFromRow(b, 2) \o MovesFromRow(b, 3)
    \o MovesFromRow(b, 4) \o MovesFromRow(b, 5) \o MovesFromRow(b, 6) \o MovesFromRow(b, 7)

\* Math.floor(Math.random() * n) for Math.random() = k / RandSteps
RandomIndex(k, n) == (k * n) \div RandSteps

\* variant: complexityFactor narrows the choice to the first moves of the list
SelectMove_UsesComplexity(moves, diff, idx) ==
    LET complexityFactor == IF diff = "Master" THEN 3
                            ELSE IF diff = "Hard" THEN 2 ELSE 1
    IN  IF Len(moves) = 0 THEN Null ELSE moves[(idx \div complexityFactor) + 1]

\* the tail of generateAIMove: the element of the list at the 0-based index
\* idx that Math.random() yields; Null when the list is empty
SelectMove(moves, diff, idx) ==
    LET complexityFactor == IF diff = "Master" THEN 3
                            ELSE IF diff = "Hard" THEN 2 ELSE 1
    IN  IF Len(moves) = 0 THEN Null ELSE moves[idx + 1]

\* generateAIMove(board, difficulty) when Math.random() yields k / RandSteps
generateAIMove(b, diff, k) ==
    CHOOSE r \in {SelectMove(moves, diff, RandomIndex(k, Len(moves))) :
                    moves \in {allPossibleMoves(b)}} : TRUE

\* every value generateAIMove(board, difficulty) can return:
\* Math.floor(Math.random() * length) takes each value in 0..length-1
generateAIMoveResults(b, diff) ==
    UNION {{SelectMove(moves, diff, idx) :
                idx \in 0..(IF Len(moves) = 0 THEN 0 ELSE Len(moves) - 1)} :
           moves \in {allPossibleMoves(b)}}

----------------------------------------------------------------------------
(* App state transitions *)

Msg(s) == <<s>>
NoMove == [from |-> NoSquare, to |-> NoSquare, piece |-> Null,
           player |-> NoColor, captured |-> Null]

\* no handler has run since the app was mounted or reset
NoEvent == [kind |-> "none", player |-> NoColor, piece |-> Null]
\* the handler kind runs while currentPlayer is player
Event(kind, player) == [kind |-> kind, player |-> player, piece |-> Null]

Other(player) == IF player = "w" THEN "b" ELSE "w"
ColorName(player) == IF player = "w" THEN "White" ELSE "Black"

\* variant: the destination receives move.piece[0] instead of move.piece
MovedBoard_ColourOnly(b, move) ==
    LET placed == [b EXCEPT ![move.to[1]][move.to[2]] = <<move.piece[1]>>]
    IN  [placed EXCEPT ![move.from[1]][move.from[2]] = Null]

\* variant: newBoard[move.from.row][move.from.col] = null is missing
MovedBoard_KeepsOrigin(b, move) ==
    [b EXCEPT ![move.to[1]][move.to[2]] = move.piece]

\* setBoard's updater in executeMove
MovedBoard(b, move) ==
    LET placed == [b EXCEPT ![move.to[1]][move.to[2]] = move.piece]
    IN  [placed EXCEPT ![move.from[1]][move.from[2]] = Null]

\* status message left by executeMove, followed by the AI effect that runs
\* when the turn has passed to Black in ai mode
StatusAfterMove(m, diff, nextPlayer, old) ==
    IF m = "local" THEN <<ColorName(nextPlayer), " to move.">>
    ELSE IF m = "ai" /\ nextPlayer = "w" THEN Msg("Your Turn (White)")
    ELSE IF m = "ai" /\ nextPlayer = "b"
         THEN <<"AI (", diff, ") calculating move...">>
    ELSE old

executeMove(move, player) ==
    /\ board' = MovedBoard(board, move)
    /\ currentPlayer' = Other(player)
    /\ selectedSquare' = NoSquare
    /\ statusMessage' = StatusAfterMove(mode, difficulty, Other(player), statusMessage)
    /\ lastMove' = [from |-> move.from, to |-> move.to, piece |-> move.piece,
                    player |-> player, captured |-> At(board, move.to)]
    /\ moveCount' = moveCount + 1

\* variant: setCurrentPlayer('w') is missing
resetGame_KeepsTurn ==
    /\ board' = INITIAL_BOARD
    /\ currentPlayer' = currentPlayer
    /\ selectedSquare' = NoSquare
    /\ statusMessage' = Msg("Game Reset. White to move.")
    /\ lastMove' = NoMove
    /\ moveCount' = 0

resetGame ==
    /\ board' = INITIAL_BOARD
    /\ currentPlayer' = "w"
    /\ selectedSquare' = NoSquare
    /\ statusMessage' = Msg("Game Reset. White to move.")
    /\ lastMove' = NoMove
    /\ moveCount' = 0

\* the board component's constant of the same name
isGameOver == FALSE

\* variant: in ai mode the turn is not looked at
isHumanTurn_NoTurnTest == mode = "local" \/ mode = "ai"

\* variant: only the AI's turn is excluded
isHumanTurn_AllButAITurn == mode # "ai" \/ currentPlayer = "w"

isHumanTurn == mode = "local" \/ (mode = "ai" /\ currentPlayer = "w")

isGameActive ==
    selectedSquare # NoSquare \/ (mode # "local" /\ currentPlayer = "b")

\* room left for one more human move (and, in ai mode, the AI's reply)
MoveBudget == moveCount + (IF mode = "ai" THEN 1 ELSE 0) < MaxMoves

\* the branch handleSquareClick takes
ClickBranch(row, col) ==
    LET clickedColor == getPieceColor(board[row][col])
    IN  IF ~isHumanTurn THEN "ignored"
        ELSE IF selectedSquare # NoSquare
        THEN IF selectedSquare[1] = row /\ selectedSquare[2] = col THEN "deselect"
             ELSE IF clickedColor = currentPlayer THEN "select"
             ELSE IF isValidMovePlaceholder(board, selectedSquare, <<row, col>>,
                                            At(board, selectedSquare), currentPlayer)
                  THEN "move"
             ELSE "invalid"
        ELSE IF board[row][col] # Null /\ clickedColor = currentPlayer THEN "select"
        ELSE "none"

\* variant: the colour of the piece is not compared with currentPlayer
handleHumanMove_NoColourTest(move) ==
    executeMove(move, currentPlayer)

handleHumanMove(move) ==
    IF getPieceColor(move.piece) # currentPlayer
    THEN /\ statusMessage' = Msg("Error: Cannot move opponent's piece.")
         /\ UNCHANGED <<board, currentPlayer, selectedSquare, lastMove, moveCount>>
    ELSE executeMove(move, currentPlayer)

handleSquareClick(row, col) ==
    LET branch == ClickBranch(row, col)
    IN  /\ branch = "move" => MoveBudget
        /\ CASE branch = "move" ->
                    \* onMove(move); setSelectedSquare(null)
                    /\ handleHumanMove(MoveOf(board, selectedSquare, <<row, col>>))
                    /\ selectedSquare' = NoSquare
             [] branch = "select" ->
                    /\ selectedSquare' = <<row, col>>
                    /\ UNCHANGED <<board, currentPlayer, statusMessage, lastMove, moveCount>>
             [] branch \in {"deselect", "invalid"} ->
                    /\ selectedSquare' = NoSquare
                    /\ UNCHANGED <<board, currentPlayer, statusMessage, lastMove, moveCount>>
             [] OTHER ->
                    UNCHANGED <<board, currentPlayer, selectedSquare, statusMessage,
                                lastMove, moveCount>>
        /\ lastEvent' = Event("click", currentPlayer)
        /\ UNCHANGED <<mode, difficulty, showDifficulty>>

\* the delay of the timeout, in milliseconds
delay(diff) ==
    IF diff = "Beginner" THEN 800
    ELSE IF diff = "Easy" THEN 500 ELSE IF diff = "Hard" THEN 300 ELSE 150

\* the condition under which the AI effect arms its timeout
AITimerArmed == mode = "ai" /\ currentPlayer = "b"

\* variant: the callback executes the move for 'w'
AITimer_WrongPlayer(k) ==
    /\ AITimerArmed
    /\ lastEvent' = Event("aiTimer", currentPlayer)
    /\ \E aiMove \in {generateAIMove(board, difficulty, k)} :  IF aiMove # Null
           THEN executeMove(aiMove, "w")
           ELSE /\ statusMessage' =
                       Msg("AI could not find a move. Game Over? (Stalemate/Error)")
                /\ currentPlayer' = "w"
                /\ UNCHANGED <<board, selectedSquare, lastMove, moveCount>>
    /\ UNCHANGED <<mode, difficulty, showDifficulty>>

\* the callback of the timeout armed by the AI effect
AITimer(k) ==
    /\ AITimerArmed
    /\ lastEvent' = Event("aiTimer", currentPlayer)
    /\ \E aiMove \in {generateAIMove(board, difficulty, k)} :  IF aiMove # Null
           THEN executeMove(aiMove, "b")
           ELSE /\ statusMessage' =
                       Msg("AI could not find a move. Game Over? (Stalemate/Error)")
                /\ currentPlayer' = "w"
                /\ UNCHANGED <<board, selectedSquare, lastMove, moveCount>>
    /\ UNCHANGED <<mode, difficulty, showDifficulty>>

\* a call of the onMove prop, i.e. of handleHumanMove, with the move from
\* one square to another and the content of the first as its piece
OnMove(from, to) ==
    /\ MoveBudget
    /\ \E move \in {MoveOf(board, from, to)} :
           /\ handleHumanMove(move)
           /\ lastEvent' = [Event("onMove", currentPlayer) EXCEPT !.piece = move.piece]
    /\ UNCHANGED <<mode, difficulty, showDifficulty>>

Restart ==
    /\ resetGame
    /\ lastEvent' = NoEvent
    /\ UNCHANGED <<mode, difficulty, showDifficulty>>

\* a mode button of ModeSelector, with the reset effect on [mode, difficulty]
SetMode(m) ==
    /\ ~isGameActive
    /\ mode' = m
    /\ IF m # mode THEN resetGame
       ELSE UNCHANGED <<board, currentPlayer, selectedSquare, statusMessage,
                        lastMove, moveCount>>
    /\ lastEvent' = NoEvent
    /\ UNCHANGED <<difficulty, showDifficulty>>

ToggleDifficulty ==
    /\ ~isGameActive /\ mode = "ai"
    /\ showDifficulty' = ~showDifficulty
    /\ lastEvent' = NoEvent
    /\ UNCHANGED <<mode, difficulty, board, currentPlayer, selectedSquare,
                   statusMessage, lastMove, moveCount>>

SetDifficulty(level) ==
    /\ ~isGameActive /\ mode = "ai" /\ showDifficulty
    /\ difficulty' = level
    /\ showDifficulty' = FALSE
    /\ IF level # difficulty THEN resetGame
       ELSE UNCHANGED <<board, currentPlayer, selectedSquare, statusMessage,
                        lastMove, moveCount>>
    /\ lastEvent' = NoEvent
    /\ UNCHANGED mode

GridInit ==
    /\ mode = "local"
    /\ difficulty = "Easy"
    /\ board = INITIAL_BOARD
    /\ currentPlayer = "w"
    /\ selectedSquare = NoSquare
    /\ statusMessage = Msg("Game Reset. White to move.")
    /\ showDifficulty = FALSE
    /\ lastMove = NoMove
    /\ moveCount = 0
    /\ lastEvent = NoEvent

\* no call of a pure function recorded
NoCall == [fn |-> "none", from |-> NoSquare, to |-> NoSquare, piece |-> Null,
           player |-> NoColor, difficulty |-> "null",
           retBool |-> FALSE, retMove |-> Null]

FnIdle ==
    /\ fnBoard = INITIAL_BOARD
    /\ fnPlies = 0
    /\ fnCall = NoCall

----------------------------------------------------------------------------
(* SpecFn: the pure functions applied to boards that executeMove produces *)

\* a validated move changes the board the functions are applied to
FnPlay ==
    /\ fnCall = NoCall
    /\ fnPlies < FnMaxPlies
    /\ \E from \in ClickSquares, to \in ClickSquares :
        LET player == IF fnPlies % 2 = 0 THEN "w" ELSE "b"
        IN  /\ isValidMovePlaceholder(fnBoard, from, to, At(fnBoard, from), player)
            /\ fnBoard' = MovedBoard(fnBoard, MoveOf(fnBoard, from, to))
    /\ fnPlies' = fnPlies + 1
    /\ UNCHANGED fnCall

FnCallIsValid ==
    /\ fnCall = NoCall
    /\ \E from \in ClickSquares, to \in ClickSquares, piece \in Piece, player \in Colors :
           fnCall' = [NoCall EXCEPT !.fn = "isValidMovePlaceholder",
                                    !.from = from, !.to = to, !.piece = piece,
                                    !.player = player,
                                    !.retBool = isValidMovePlaceholder(fnBoard, from, to,
                                                                       piece, player)]
    /\ UNCHANGED <<fnBoard, fnPlies>>

FnCallGenerateAIMove ==
    /\ fnCall = NoCall
    /\ \E diff \in Difficulty :
        \E ret \in generateAIMoveResults(fnBoard, diff) :
           fnCall' = [NoCall EXCEPT !.fn = "generateAIMove", !.difficulty = diff,
                                    !.retMove = ret]
    /\ UNCHANGED <<fnBoard, fnPlies>>

----------------------------------------------------------------------------
(* The string-board app: constants and mock engine *)

INITIAL_BOARD_STATE ==
    <<
       "r", "n", "b", "q", "k", "b", "n", "r", "/", "p", "p", "p",
       "p", "p", "p", "p", "p", "/", "8", "/", "8", "/", "8", "/",
       "8", "/", "P", "P", "P", "P", "P", "P", "P", "P", "/", "R",
       "N", "B", "Q", "K", "B", "N", "R", " ", "w", " ", "K", "Q",
       "k", "q", " ", "-", " ", "0", " ", "1" >>

\* the literal that mockApplyMove returns after White's move
BLACK_TO_MOVE_STATE ==
    <<
       "r", "n", "b", "q", "k", "b", "n", "r", "/", "p", "p", "p",
       "p", "p", "p", "p", "p", "/", "8", "/", "8", "/", "8", "/",
       "8", "/", "P", "P", "P", "P", "P", "P", "P", "P", "/", "R",
       "N", "B", "Q", "K", "B", "N", "R", " ", "b", " ", "K", "Q",
       "k", "q", " ", "-", " ", "0", " ", "1" >>

\* String.prototype.includes for a one-character needle
Includes(str, ch) == \E i \in 1..Len(str) : str[i] = ch

NoDifficulty == "null"
NoGameId == "null"
NoCoord == "null"
StrModes == {"LOCAL_2P", "AI", "MULTIPLAYER", "IDLE"}

\* the squares the modelled user clicks on
Coords == {"e2", "e4"}

\* variant: the list for Black is empty
mockGetLegalMoves_NoBlackMoves(b, turn) ==
    IF Includes(b, "P") /\ turn = "w" THEN <<"e2e3", "e2e4">>
    ELSE <<>>

mockGetLegalMoves(b, turn) ==
    IF Includes(b, "P") /\ turn = "w" THEN <<"e2e3", "e2e4">>
    ELSE IF Includes(b, "p") /\ turn = "b" THEN <<"e7e6", "e7e5">>
    ELSE <<>>

\* variant: the turn is switched and the board string is handed back as it is
mockApplyMove_KeepsBoard(b, move) ==
    [board  |-> b,
     turn   |-> IF Includes(b, "w") THEN "b" ELSE "w",
     status |-> "playing"]

mockApplyMove(b, move) ==
    [board  |-> IF Includes(b, "w") THEN BLACK_TO_MOVE_STATE ELSE INITIAL_BOARD_STATE,
     turn   |-> IF Includes(b, "w") THEN "b" ELSE "w",
     status |-> "playing"]

\* which part of the UI App's render logic produces; reading lobbyGames, which
\* is not declared in App, throws
Render(m, diff, gid) ==
    IF m = "IDLE" \/ (m = "AI" /\ diff = NoDifficulty) THEN "ModeSelection"
    ELSE IF m = "MULTIPLAYER" THEN "ReferenceError"
    ELSE IF m = "LOCAL_2P" \/ (m = "AI" /\ diff # NoDifficulty)
            \/ (m = "MULTIPLAYER" /\ gid # NoGameId) THEN "Game"
    ELSE IF m = "AI" /\ diff = NoDifficulty THEN "ModeSelection"
    ELSE IF m = "MULTIPLAYER" /\ gid = NoGameId THEN "MultiplayerLobby"
    ELSE "nothing"

Screen == Render(sMode, sDifficulty, gameId)

----------------------------------------------------------------------------
(* The string-board app: handlers *)

NoClick == [coord |-> NoCoord, turn |-> "null", selected |-> NoCoord]

\* the values a handleMoveAttempt callback closes over
Closure == [gameState |-> gameState, playerColor |-> playerColor, mode |-> sMode,
            difficulty |-> sDifficulty, gameId |-> gameId]

\* the AI effect runs after a render that changed one of its dependencies and
\* leaves mode 'AI', Black to move and a difficulty: it calls getAIMove
EffectsAfter(cl) ==
    IF /\ cl # Closure
       /\ cl.mode = "AI" /\ cl.gameState.turn = "b" /\ cl.difficulty # NoDifficulty
    THEN Append(aiEffects, [closure |-> cl,
                            legalMoves |-> mockGetLegalMoves(cl.gameState.board,
                                                             cl.gameState.turn)])
    ELSE aiEffects

\* handleMoveAttempt as created by the render with the values cl
handleMoveAttempt(cl, from, to) ==
    LET moveNotation == <<from, "-", to>>
        result == mockApplyMove(cl.gameState.board, moveNotation)
    IN  IF cl.gameState.turn # cl.playerColor /\ cl.mode # "LOCAL_2P"
        THEN UNCHANGED <<gameState, gameLog, aiReplies>>
        ELSE IF cl.mode = "LOCAL_2P"
        THEN /\ gameState' = result
             /\ gameLog' = Append(gameLog,
                                  <<IF cl.gameState.turn = "w" THEN "W" ELSE "B", ": ">>
                                      \o moveNotation)
             /\ UNCHANGED aiReplies
        ELSE IF cl.mode = "AI" /\ cl.gameState.turn = cl.playerColor
        THEN /\ gameState' = result
             /\ gameLog' = Append(gameLog, <<"Human (W): ">> \o moveNotation)
             /\ aiReplies' =
                    IF result.turn = "b"
                    THEN Append(aiReplies,
                                [board |-> result.board,
                                 legalMoves |-> mockGetLegalMoves(result.board, "b")])
                    ELSE aiReplies
        ELSE IF cl.mode = "MULTIPLAYER" /\ cl.gameId # NoGameId
        THEN /\ gameState' = result
             /\ gameLog' = Append(gameLog, <<"Move: ">> \o moveNotation)
             /\ UNCHANGED aiReplies
        ELSE UNCHANGED <<gameState, gameLog, aiReplies>>

\* room in the log for a move and the pending replies
LogBudget ==
    Len(gameLog) + Len(aiReplies) + (IF sMode = "AI" THEN 2 ELSE 1) <= MaxLog

Remove(seq, i) == [j \in 1..(Len(seq) - 1) |-> IF j < i THEN seq[j] ELSE seq[j + 1]]

\* ChessBoardComponent.handleSquareClick
SquareClick(coord) ==
    /\ Screen = "Game"
    /\ lastClick' = [coord |-> coord, turn |-> gameState.turn, selected |-> bSelected]
    /\ IF gameState.status # "playing" \/ gameState.turn # playerColor
       THEN UNCHANGED <<gameState, gameLog, aiReplies, aiEffects, bSelected>>
       ELSE IF bSelected = coord
       THEN /\ bSelected' = NoCoord
            /\ UNCHANGED <<gameState, gameLog, aiReplies, aiEffects>>
       ELSE IF bSelected # NoCoord
       THEN /\ LogBudget /\ Len(aiReplies) < MaxPending /\ Len(aiEffects) < MaxPending
            /\ handleMoveAttempt(Closure, bSelected, coord)
            /\ aiEffects' = EffectsAfter([Closure EXCEPT !.gameState = gameState'])
            /\ bSelected' = NoCoord
       ELSE /\ bSelected' = coord
            /\ UNCHANGED <<gameState, gameLog, aiReplies, aiEffects>>
    /\ UNCHANGED <<sMode, sDifficulty, playerColor, gameId>>

\* the promise awaited in handleMoveAttempt resolves with legalMoves[idx]
AIReplyResolves(i, idx) ==
    /\ i \in 1..Len(aiReplies)
    /\ LET reply == aiReplies[i]
           aiMove == IF Len(reply.legalMoves) > 0
                     THEN reply.legalMoves[idx + 1] ELSE ""
       IN  /\ idx < Len(reply.legalMoves) \/ (idx = 0 /\ Len(reply.legalMoves) = 0)
           /\ IF aiMove # ""
              THEN /\ gameState' = mockApplyMove(reply.board, aiMove)
                   /\ gameLog' = Append(gameLog, <<"AI (B): ", aiMove>>)
              ELSE UNCHANGED <<gameState, gameLog>>
    /\ aiReplies' = Remove(aiReplies, i)
    /\ aiEffects' = EffectsAfter([Closure EXCEPT !.gameState = gameState'])
    /\ lastClick' = NoClick
    /\ UNCHANGED <<sMode, sDifficulty, playerColor, gameId, bSelected>>

\* the promise awaited by the AI effect resolves with legalMoves[idx]
AIEffectResolves(i, idx) ==
    /\ i \in 1..Len(aiEffects)
    /\ LET eff == aiEffects[i]
           aiMove == IF Len(eff.legalMoves) > 0 THEN eff.legalMoves[idx + 1] ELSE ""
       IN  /\ idx < Len(eff.legalMoves) \/ (idx = 0 /\ Len(eff.legalMoves) = 0)
           /\ IF aiMove # ""
              THEN handleMoveAttempt(eff.closure, "SimulatedFrom", aiMove)
              ELSE /\ gameState' = [gameState EXCEPT !.status = "stalemate"]
                   /\ gameLog' = Append(gameLog,
                          <<"AI cannot move. Stalemate or Checkmate detected.">>)
                   /\ UNCHANGED aiReplies
    /\ aiEffects' = Remove(aiEffects, i)
    /\ lastClick' = NoClick
    /\ UNCHANGED <<sMode, sDifficulty, playerColor, gameId, bSelected>>

\* 'End Game & Return to Menu' and 'Resign Game'
EndGame ==
    /\ Screen = "Game"
    /\ gameState' = [board |-> INITIAL_BOARD_STATE, turn |-> "w", status |-> "playing"]
    /\ gameLog' = <<>>
    /\ sDifficulty' = NoDifficulty
    /\ gameId' = NoGameId
    /\ sMode' = "IDLE"
    /\ bSelected' = NoCoord
    /\ lastClick' = NoClick
    /\ UNCHANGED <<playerColor, aiReplies, aiEffects>>

\* the three buttons of the mode selection screen
SelectMode(m) ==
    /\ Screen = "ModeSelection" /\ sMode = "IDLE"
    /\ m \in {"LOCAL_2P", "AI", "MULTIPLAYER"}
    /\ sMode' = m
    /\ playerColor' = IF m = "LOCAL_2P" THEN "w" ELSE playerColor
    /\ lastClick' = NoClick
    /\ UNCHANGED <<sDifficulty, gameState, gameLog, gameId, bSelected,
                   aiReplies, aiEffects>>

\* a difficulty button of the AI configuration screen
ChooseDifficulty(diff) ==
    /\ Screen = "ModeSelection" /\ sMode = "AI"
    /\ sDifficulty' = diff
    /\ playerColor' = "w"
    /\ sMode' = "AI"
    /\ aiEffects' = EffectsAfter([Closure EXCEPT !.difficulty = diff,
                                                 !.playerColor = "w"])
    /\ lastClick' = NoClick
    /\ UNCHANGED <<gameState, gameLog, gameId, bSelected, aiReplies>>

\* the 'Play As' buttons of the AI configuration screen
PlayAs(color) ==
    /\ Screen = "ModeSelection" /\ sMode = "AI"
    /\ playerColor' = color
    /\ lastClick' = NoClick
    /\ UNCHANGED <<sMode, sDifficulty, gameState, gameLog, gameId, bSelected,
                   aiReplies, aiEffects>>

\* the 'Back' button of the AI configuration screen
Back ==
    /\ Screen = "ModeSelection" /\ sMode = "AI"
    /\ sMode' = "IDLE"
    /\ lastClick' = NoClick
    /\ UNCHANGED <<sDifficulty, playerColor, gameState, gameLog, gameId, bSelected,
                   aiReplies, aiEffects>>

StrIdle ==
    /\ sMode = "IDLE"
    /\ sDifficulty = NoDifficulty
    /\ playerColor = "w"
    /\ gameState = [board |-> INITIAL_BOARD_STATE, turn |-> "w", status |-> "playing"]
    /\ gameLog = <<>>
    /\ gameId = NoGameId
    /\ bSelected = NoCoord
    /\ aiReplies = <<>>
    /\ aiEffects = <<>>
    /\ lastClick = NoClick

----------------------------------------------------------------------------
(* The multiplayer lobby: two browsers and the shared games table *)

Clients == {"A", "B"}
\* the values Date.now() takes when a room is created
Times == {"1700000000000"}
RoomId(t) == <<"room-", t>>
GameIds == {RoomId(t) : t \in Times}

MOCK_USER_ID == "user-12345"
NoUser == "null"

NoRow == [status |-> "absent", player_w |-> NoUser, player_b |-> NoUser]
NoRequest == [phase |-> "none", id |-> <<>>, served |-> FALSE, error |-> FALSE,
              rowStatus |-> "null"]

\* supabase.from('games').select('*').eq('status', 'waiting')
SelectWaiting(tbl) ==
    {[id |-> g, status |-> tbl[g].status, player_w |-> tbl[g].player_w,
      player_b |-> tbl[g].player_b] : g \in {h \in GameIds : tbl[h].status = "waiting"}}

\* supabase.from('games').insert([{id, status: 'waiting', player_w, player_b: null}])
InsertGame(tbl, id) ==
    [tbl EXCEPT ![id] = [status |-> "waiting", player_w |-> MOCK_USER_ID,
                         player_b |-> NoUser]]

\* supabase.from('games').update({player_b, status: 'playing'}).eq('id', game.id)
JoinUpdate(tbl, id) ==
    IF tbl[id].status # "absent"
    THEN [tbl EXCEPT ![id].player_b = MOCK_USER_ID, ![id].status = "playing"]
    ELSE tbl

\* variant: a join of a game that is not waiting is reported as an error
JoinError_Conflict(tbl, id, delivered) ==
    ~delivered \/ tbl[id].status # "waiting"

\* the error of the update call: only a request that fails is an error, the
\* state of the row is not looked at
JoinError(tbl, id, delivered) == ~delivered

\* fetchGames up to its await
StartFetch(c) ==
    /\ isLoading' = [isLoading EXCEPT ![c] = TRUE]
    /\ fetchPending' = [fetchPending EXCEPT ![c] = TRUE]

\* the realtime listener or the subscribe callback calls fetchGames
FetchStarts(c) ==
    /\ ~fetchPending[c]
    /\ StartFetch(c)
    /\ UNCHANGED <<games, lobbyGames, isCreating, createPending, joinPending,
                   lMode, lPlayerColor, lGameId>>

\* fetchGames after its await
FetchReturns(c, delivered) ==
    /\ fetchPending[c]
    /\ fetchPending' = [fetchPending EXCEPT ![c] = FALSE]
    /\ lobbyGames' = IF delivered THEN [lobbyGames EXCEPT ![c] = SelectWaiting(games)]
                     ELSE lobbyGames
    /\ isLoading' = [isLoading EXCEPT ![c] = FALSE]
    /\ UNCHANGED <<games, isCreating, createPending, joinPending,
                   lMode, lPlayerColor, lGameId>>

\* createGame up to its await
CreateStarts(c, t) ==
    /\ ~isCreating[c]
    /\ isCreating' = [isCreating EXCEPT ![c] = TRUE]
    /\ createPending' = [createPending EXCEPT
                            ![c] = [NoRequest EXCEPT !.phase = "sent", !.id = RoomId(t)]]
    /\ UNCHANGED <<games, lobbyGames, isLoading, fetchPending, joinPending,
                   lMode, lPlayerColor, lGameId>>

\* the insert reaches the table (or is lost); a second row with the id of an
\* existing one is refused
CreateServed(c, delivered) ==
    /\ createPending[c].phase = "sent"
    /\ LET id == createPending[c].id
           accepted == delivered /\ games[id].status = "absent"
       IN  /\ games' = IF accepted THEN InsertGame(games, id) ELSE games
           /\ createPending' = [createPending EXCEPT
                                   ![c].phase = "responded",
                                   ![c].served = delivered,
                                   ![c].error = ~accepted]
    /\ UNCHANGED <<lobbyGames, isLoading, isCreating, fetchPending, joinPending,
                   lMode, lPlayerColor, lGameId>>

\* createGame after its await
CreateReturns(c) ==
    /\ createPending[c].phase = "responded"
    /\ IF ~createPending[c].error
       THEN /\ lPlayerColor' = [lPlayerColor EXCEPT ![c] = "w"]
            /\ lMode' = [lMode EXCEPT ![c] = "MULTIPLAYER"]
       ELSE UNCHANGED <<lPlayerColor, lMode>>
    /\ isCreating' = [isCreating EXCEPT ![c] = FALSE]
    /\ createPending' = [createPending EXCEPT ![c] = NoRequest]
    /\ UNCHANGED <<games, lobbyGames, isLoading, fetchPending, joinPending, lGameId>>

\* the 'Join as Black' button of a listed game: joinGame(game, 'b') up to its await
JoinStarts(c, game) ==
    /\ ~isLoading[c]
    /\ game \in lobbyGames[c]
    /\ game.player_b = NoUser
    /\ joinPending[c].phase = "none"
    /\ joinPending' = [joinPending EXCEPT
                          ![c] = [NoRequest EXCEPT !.phase = "sent", !.id = game.id]]
    /\ UNCHANGED <<games, lobbyGames, isLoading, isCreating, fetchPending,
                   createPending, lMode, lPlayerColor, lGameId>>

\* the update reaches the table (or is lost)
JoinServed(c, delivered) ==
    /\ joinPending[c].phase = "sent"
    /\ LET id == joinPending[c].id
       IN  /\ games' = IF delivered THEN JoinUpdate(games, id) ELSE games
           /\ joinPending' = [joinPending EXCEPT
                                 ![c].phase = "responded",
                                 ![c].served = delivered,
                                 ![c].rowStatus = games[id].status,
                                 ![c].error = JoinError(games, id, delivered)]
    /\ UNCHANGED <<lobbyGames, isLoading, isCreating, fetchPending, createPending,
                   lMode, lPlayerColor, lGameId>>

\* joinGame after its await
JoinReturns(c) ==
    /\ joinPending[c].phase = "responded"
    /\ IF ~joinPending[c].error
       THEN /\ lPlayerColor' = [lPlayerColor EXCEPT ![c] = "b"]
            /\ lMode' = [lMode EXCEPT ![c] = "MULTIPLAYER"]
            /\ UNCHANGED <<isLoading, fetchPending>>
       ELSE /\ StartFetch(c)
            /\ UNCHANGED <<lPlayerColor, lMode>>
    /\ joinPending' = [joinPending EXCEPT ![c] = NoRequest]
    /\ UNCHANGED <<games, lobbyGames, isCreating, createPending, lGameId>>

\* both lobbies have just been mounted: the mount effect has called fetchGames
LobbyMounted ==
    /\ games = [g \in GameIds |-> NoRow]
    /\ lobbyGames = [c \in Clients |-> {}]
    /\ isLoading = [c \in Clients |-> TRUE]
    /\ isCreating = [c \in Clients |-> FALSE]
    /\ fetchPending = [c \in Clients |-> TRUE]
    /\ createPending = [c \in Clients |-> NoRequest]
    /\ joinPending = [c \in Clients |-> NoRequest]
    /\ lMode = [c \in Clients |-> "MULTIPLAYER"]
    /\ lPlayerColor = [c \in Clients |-> "w"]
    /\ lGameId = [c \in Clients |-> NoGameId]

----------------------------------------------------------------------------
(* Specifications *)

Init == GridInit /\ FnIdle /\ StrIdle /\ LobbyMounted

Next ==
    \/ \E sq \in ClickSquares : handleSquareClick(sq[1], sq[2]) /\ UNCHANGED <<fnVars, strVars, lobbyVars>>
    \/ \E k \in 0..(RandSteps - 1) : AITimer(k) /\ UNCHANGED <<fnVars, strVars, lobbyVars>>
    \/ Restart /\ UNCHANGED <<fnVars, strVars, lobbyVars>>
    \/ \E m \in GameModes : SetMode(m) /\ UNCHANGED <<fnVars, strVars, lobbyVars>>
    \/ ToggleDifficulty /\ UNCHANGED <<fnVars, strVars, lobbyVars>>
    \/ \E level \in Difficulty : SetDifficulty(level) /\ UNCHANGED <<fnVars, strVars, lobbyVars>>

Spec == Init /\ [][Next]_vars

\* the callback of the timeout that the AI effect has armed
AITimerFires ==
    \E k \in 0..(RandSteps - 1) : AITimer(k) /\ UNCHANGED <<fnVars, strVars, lobbyVars>>

\* the callback can run exactly when the effect has armed the timeout (an
\* invariant of Spec)
AITimerEnabledIffArmed == AITimerArmed <=> ENABLED <<AITimerFires>>_vars

\* a step that is a run of the callback: of the steps of Next only those of
\* AITimerFires record an "aiTimer" event
AITimerRan == lastEvent' = Event("aiTimer", "b")

\* A timeout that stays armed is eventually run: the effect's cleanup clears it
\* only when mode, difficulty, board or currentPlayer change.  This is
\* WF_vars(AITimerFires) written out, with AITimerArmed in the place of
\* ENABLED <<AITimerFires>>_vars (AITimerEnabledIffArmed) and with AITimerRan
\* in the place of AITimerFires.
SpecLive ==
    Spec /\ ([]<>(~AITimerArmed) \/ []<><<AITimerRan>>_vars)

\* the grid-board app with handleHumanMove also called directly
CallInit == GridInit /\ FnIdle /\ StrIdle /\ LobbyMounted

CallNext ==
    \/ \E sq \in ClickSquares : handleSquareClick(sq[1], sq[2]) /\ UNCHANGED <<fnVars, strVars, lobbyVars>>
    \/ \E from \in CallSquares, to \in CallSquares :
           OnMove(from, to) /\ UNCHANGED <<fnVars, strVars, lobbyVars>>
    \/ \E k \in 0..(RandSteps - 1) : AITimer(k) /\ UNCHANGED <<fnVars, strVars, lobbyVars>>
    \/ Restart /\ UNCHANGED <<fnVars, strVars, lobbyVars>>
    \/ \E m \in GameModes : SetMode(m) /\ UNCHANGED <<fnVars, strVars, lobbyVars>>
    \/ ToggleDifficulty /\ UNCHANGED <<fnVars, strVars, lobbyVars>>
    \/ \E level \in Difficulty : SetDifficulty(level) /\ UNCHANGED <<fnVars, strVars, lobbyVars>>

SpecCall == CallInit /\ [][CallNext]_vars

FnInit == GridInit /\ FnIdle /\ StrIdle /\ LobbyMounted /\ StrIdle

FnNext ==
    \/ FnPlay /\ UNCHANGED <<gridVars, strVars, lobbyVars>>
    \/ FnCallIsValid /\ UNCHANGED <<gridVars, strVars, lobbyVars>>
    \/ FnCallGenerateAIMove /\ UNCHANGED <<gridVars, strVars, lobbyVars>>

SpecFn == FnInit /\ [][FnNext]_vars

StrInit == GridInit /\ FnIdle /\ StrIdle /\ LobbyMounted

StrNext ==
    \/ \E coord \in Coords : SquareClick(coord) /\ UNCHANGED <<gridVars, fnVars, lobbyVars>>
    \/ \E i \in 1..MaxPending, idx \in 0..1 :
           AIReplyResolves(i, idx) /\ UNCHANGED <<gridVars, fnVars, lobbyVars>>
    \/ \E i \in 1..MaxPending, idx \in 0..1 :
           AIEffectResolves(i, idx) /\ UNCHANGED <<gridVars, fnVars, lobbyVars>>
    \/ EndGame /\ UNCHANGED <<gridVars, fnVars, lobbyVars>>
    \/ \E m \in StrModes : SelectMode(m) /\ UNCHANGED <<gridVars, fnVars, lobbyVars>>
    \/ \E diff \in Difficulty : ChooseDifficulty(diff) /\ UNCHANGED <<gridVars, fnVars, lobbyVars>>
    \/ \E color \in Colors : PlayAs(color) /\ UNCHANGED <<gridVars, fnVars, lobbyVars>>
    \/ Back /\ UNCHANGED <<gridVars, fnVars, lobbyVars>>

SpecStr == StrInit /\ [][StrNext]_vars

LobbyInit == GridInit /\ FnIdle /\ StrIdle /\ LobbyMounted

LobbyNext ==
    \/ \E c \in Clients : FetchStarts(c) /\ UNCHANGED <<gridVars, fnVars, strVars>>
    \/ \E c \in Clients, delivered \in BOOLEAN :
           FetchReturns(c, delivered) /\ UNCHANGED <<gridVars, fnVars, strVars>>
    \/ \E c \in Clients, t \in Times :
           CreateStarts(c, t) /\ UNCHANGED <<gridVars, fnVars, strVars>>
    \/ \E c \in Clients, delivered \in BOOLEAN :
           CreateServed(c, delivered) /\ UNCHANGED <<gridVars, fnVars, strVars>>
    \/ \E c \in Clients : CreateReturns(c) /\ UNCHANGED <<gridVars, fnVars, strVars>>
    \/ \E c \in Clients : \E game \in lobbyGames[c] :
           JoinStarts(c, game) /\ UNCHANGED <<gridVars, fnVars, strVars>>
    \/ \E c \in Clients, delivered \in BOOLEAN :
           JoinServed(c, delivered) /\ UNCHANGED <<gridVars, fnVars, strVars>>
    \/ \E c \in Clients : JoinReturns(c) /\ UNCHANGED <<gridVars, fnVars, strVars>>

SpecLobby == LobbyInit /\ [][LobbyNext]_vars

----------------------------------------------------------------------------
(* Properties of the grid-board app and of its pure functions *)

Abs(n) == IF n < 0 THEN -n ELSE n

\* the movement shape of chess for the piece of move mv (paths not considered)
ObeysShape(mv) ==
    LET dr == mv.to[1] - mv.from[1]
        dc == mv.to[2] - mv.from[2]
        fwd == IF mv.player = "w" THEN -1 ELSE 1
        home == IF mv.player = "w" THEN 6 ELSE 1
        t == mv.piece[2]
    IN  CASE t = "R" -> dr = 0 \/ dc = 0
          [] t = "B" -> Abs(dr) = Abs(dc)
          [] t = "Q" -> dr = 0 \/ dc = 0 \/ Abs(dr) = Abs(dc)
          [] t = "N" -> {Abs(dr), Abs(dc)} = {1, 2}
          [] t = "K" -> Abs(dr) <= 1 /\ Abs(dc) <= 1
          [] OTHER   -> \/ dc = 0 /\ dr = fwd /\ mv.captured = Null
                        \/ dc = 0 /\ dr = 2 * fwd /\ mv.from[1] = home
                                  /\ mv.captured = Null
                        \/ Abs(dc) = 1 /\ dr = fwd /\ mv.captured # Null

KingOnBoard(col) == \E sq \in Squares : At(board, sq) = <<col, "K">>

\* C1: every executed move, human or AI, goes to a square other than its
\* origin, and that square did not hold a piece of the mover's colour.
C1_ExecutedMoveNoSelfCapture ==
    lastMove # NoMove =>
        /\ lastMove.from # lastMove.to
        /\ getPieceColor(lastMove.captured) # lastMove.player

\* an AI move has been executed in reply to a human move
C1_Witness ==
    mode = "ai" /\ lastMove.player = "b" /\ moveCount = 2

\* C2: isValidMovePlaceholder returns true exactly when the piece is non-null
\* and of the current player's colour, the squares differ and the target does
\* not hold a piece of the current player's colour.
C2_IsValidExactly ==
    fnCall.fn = "isValidMovePlaceholder" =>
        (fnCall.retBool <=>
            /\ fnCall.piece # Null
            /\ getPieceColor(fnCall.piece) = fnCall.player
            /\ fnCall.to # fnCall.from
            /\ getPieceColor(At(fnBoard, fnCall.to)) # fnCall.player)

\* a pawn is allowed to take the opposing king from seven ranks away
C2_Witness ==
    /\ fnCall.fn = "isValidMovePlaceholder" /\ fnCall.retBool
    /\ fnCall.piece = <<"w", "P">> /\ fnCall.player = "w"
    /\ fnCall.from = <<6, 4>> /\ fnCall.to = <<0, 4>>
    /\ At(fnBoard, <<0, 4>>) = <<"b", "K">>

\* the triples C3 describes
BlackMoveTriples(b) ==
    {MoveOf(b, q[1], q[2]) :
        q \in {p \in Squares \X Squares :
                    /\ getPieceColor(At(b, p[1])) = "b"
                    /\ p[2] # p[1]
                    /\ getPieceColor(At(b, p[2])) # "b"}}

\* C3: the moves generateAIMove can return are exactly the triples
\* (from, to, piece) with a Black piece on from, piece that piece, to another
\* square, and no Black piece on to.
C3_AIMoveSetExact ==
    /\ fnCall = NoCall =>
           \A triples \in {BlackMoveTriples(fnBoard)} :
               generateAIMoveResults(fnBoard, "Easy") =
                   (IF triples = {} THEN {Null} ELSE triples)
    /\ fnCall.fn = "generateAIMove" =>
           \/ fnCall.retMove = Null
           \/ /\ getPieceColor(At(fnBoard, fnCall.retMove.from)) = "b"
              /\ fnCall.retMove.piece = At(fnBoard, fnCall.retMove.from)
              /\ fnCall.retMove.to # fnCall.retMove.from
              /\ getPieceColor(At(fnBoard, fnCall.retMove.to)) # "b"

\* the AI returns the a7 pawn taking the king on e1
C3_Witness ==
    /\ fnCall.fn = "generateAIMove"
    /\ fnCall.retMove = [from |-> <<1, 0>>, to |-> <<7, 4>>, piece |-> <<"b", "P">>]

\* C4 as stated: every executed move obeys the movement shape of its piece.
C4_ExecutedMoveObeysShape ==
    lastMove # NoMove => ObeysShape(lastMove)

\* C4 amended: an executed move only avoids no-op and self-capture; with a
\* piece selected, a click on any other square not holding the mover's colour
\* executes the move, whatever the piece type and the distance.
C4_OnlySelfCaptureAndNoOpRefused ==
    /\ lastMove # NoMove =>
           /\ lastMove.from # lastMove.to
           /\ getPieceColor(lastMove.captured) # getPieceColor(lastMove.piece)
    /\ (isHumanTurn /\ selectedSquare # NoSquare) =>
           \A sq \in Squares :
               (ClickBranch(sq[1], sq[2]) = "move") <=>
                   (sq # selectedSquare /\ getPieceColor(At(board, sq)) # currentPlayer)

\* a move no chess piece of that type can make has been executed
C4_Witness ==
    lastMove # NoMove /\ ~ObeysShape(lastMove)

\* C5: taking a king is an ordinary capture: it is accepted, the king is gone,
\* the turn passes, and no game-over state exists.
C5_KingCaptureIsOrdinary ==
    /\ ~isGameOver
    /\ (lastMove # NoMove /\ lastMove.captured # Null /\ lastMove.captured[2] = "K") =>
           /\ ~KingOnBoard(lastMove.captured[1])
           /\ At(board, lastMove.to) = lastMove.piece
           /\ currentPlayer = Other(lastMove.player)
    /\ (isHumanTurn /\ selectedSquare # NoSquare) =>
           \A sq \in Squares :
               At(board, sq) = <<Other(currentPlayer), "K">> =>
                   ClickBranch(sq[1], sq[2]) = "move"

\* the side whose king has been taken has made a move since
C5_Witness ==
    \E col \in Colors :
        ~KingOnBoard(col) /\ lastMove.player = col /\ currentPlayer = Other(col)

\* C7: the board is 8 rows of 8 cells, each empty or one of the twelve tags.
C7_BoardShape ==
    /\ DOMAIN board = Idx
    /\ \A r \in Idx :
           /\ DOMAIN board[r] = Idx
           /\ \A c \in Idx : board[r][c] \in Piece

\* a capture has been executed
C7_Witness ==
    lastMove # NoMove /\ lastMove.captured # Null

StartPosition ==
    board = INITIAL_BOARD /\ currentPlayer = "w" /\ selectedSquare = NoSquare

\* a step that restarts the game or changes the mode or the difficulty
ResetStep == Restart \/ mode' # mode \/ difficulty' # difficulty

\* C8: at start-up and after Restart, a mode change or a difficulty change the
\* board is INITIAL_BOARD, White is to move and nothing is selected; board and
\* turn stay so until a move is executed.
C8_ResetRestoresStart ==
    /\ StartPosition
    /\ [][ResetStep => StartPosition']_vars
    /\ [](lastMove = NoMove => (board = INITIAL_BOARD /\ currentPlayer = "w"))

\* both a mode change and a difficulty change have reset the game
C8_Witness ==
    /\ mode = "ai" /\ difficulty = "Master"
    /\ statusMessage = Msg("Game Reset. White to move.")
    /\ StartPosition

----------------------------------------------------------------------------
(* Properties of the string-board app and of the lobby *)

\* C6: a join that reaches the games table is never refused, whatever the
\* status of the row, and the client whose join returned without error becomes
\* Black in MULTIPLAYER mode.
C6_JoinHasNoConflictCheck ==
    /\ [](\A c \in Clients :
            joinPending[c].served =>
                /\ ~joinPending[c].error
                /\ games[joinPending[c].id].status \in {"absent", "playing"})
    /\ [][\A c \in Clients :
            (/\ joinPending[c].phase = "responded"
             /\ ~joinPending[c].error
             /\ joinPending'[c] = NoRequest)
            => (lPlayerColor'[c] = "b" /\ lMode'[c] = "MULTIPLAYER")]_vars

\* a client's join has been accepted for a game that was already 'playing',
\* after the other client joined it
C6_Witness ==
    \E c \in Clients, d \in Clients :
        /\ c # d
        /\ lPlayerColor[d] = "b"
        /\ joinPending[c].phase = "responded"
        /\ joinPending[c].served /\ ~joinPending[c].error
        /\ joinPending[c].rowStatus = "playing"
        /\ games[joinPending[c].id].player_b = MOCK_USER_ID

\* C9: in LOCAL_2P mode with Black to move, a click on a square selects it
\* when nothing is selected, and a click on another square when one is
\* selected applies the move and returns the turn to White.
C9_LocalBlackCanMove ==
    (sMode = "LOCAL_2P" /\ lastClick # NoClick /\ lastClick.turn = "b") =>
        IF lastClick.selected = NoCoord THEN bSelected = lastClick.coord
        ELSE (lastClick.selected # lastClick.coord => gameState.turn = "w")

\* C10: when createGame's insert has succeeded and createGame returns, the
\* app shows the game view and the player's colour is White.
C10_CreateShowsGameView ==
    [][\A c \in Clients :
        (/\ createPending[c].phase = "responded"
         /\ ~createPending[c].error
         /\ createPending'[c] = NoRequest)
        => (/\ Render(lMode'[c], NoDifficulty, lGameId'[c]) = "Game"
            /\ lPlayerColor'[c] = "w")]_vars

----------------------------------------------------------------------------
(* Further properties of the grid-board app *)

\* C12: while mode is 'multiplayer' the board is INITIAL_BOARD, White is to
\* move, nothing is selected, no move has been executed and the AI timer has
\* not fired, whatever squares are clicked.
C12_MultiplayerHasNoGameplay ==
    mode = "multiplayer" =>
        /\ board = INITIAL_BOARD
        /\ currentPlayer = "w"
        /\ selectedSquare = NoSquare
        /\ lastMove = NoMove
        /\ lastEvent.kind # "aiTimer"

\* a square has been clicked in multiplayer mode
C12_Witness ==
    mode = "multiplayer" /\ lastEvent = Event("click", "w")

\* C13: in ai mode, Black to move leads to White to move; the turn comes back
\* only by the AI timer or by a reset; and a firing of the AI timer happens
\* with Black to move, passes the turn to White, and either executes one move
\* of a Black piece or leaves the board alone and reports that no move was
\* found.
C13_AIAnswersOnce ==
    /\ (mode = "ai" /\ currentPlayer = "b") ~> (currentPlayer = "w")
    /\ [][(mode = "ai" /\ currentPlayer = "b" /\ currentPlayer' = "w")
            => (lastEvent'.kind = "aiTimer" \/ StartPosition')]_vars
    /\ [][lastEvent'.kind = "aiTimer" =>
            /\ mode = "ai" /\ currentPlayer = "b" /\ currentPlayer' = "w"
            /\ \/ /\ moveCount' = moveCount + 1
                  /\ lastMove'.player = "b"
                  /\ getPieceColor(lastMove'.piece) = "b"
               \/ /\ UNCHANGED <<board, moveCount, lastMove>>
                  /\ statusMessage' =
                         Msg("AI could not find a move. Game Over? (Stalemate/Error)")]_vars

\* the AI timer has fired and the human has the turn again
C13_Witness ==
    /\ mode = "ai" /\ currentPlayer = "w"
    /\ lastEvent = Event("aiTimer", "b")
    /\ lastMove.player = "b"

\* C14: in ai mode a click made while Black is to move leaves the board, the
\* selected square, the turn and the record of executed moves as they are; and
\* in ai mode a move is executed either by a click, for White and with a White
\* piece, or by the AI timer, for Black and with a Black piece.
C14_ClicksIgnoredOnAITurn ==
    /\ [][(mode = "ai" /\ currentPlayer = "b" /\ lastEvent' = Event("click", "b"))
            => UNCHANGED <<board, selectedSquare, currentPlayer, lastMove, moveCount>>]_vars
    /\ [][(mode = "ai" /\ moveCount' = moveCount + 1) =>
            \/ /\ lastEvent' = Event("click", "w")
               /\ lastMove'.player = "w"
               /\ getPieceColor(lastMove'.piece) = "w"
            \/ /\ lastEvent' = Event("aiTimer", "b")
               /\ lastMove'.player = "b"
               /\ getPieceColor(lastMove'.piece) = "b"]_vars

\* a square has been clicked while the AI was to move
C14_Witness ==
    /\ mode = "ai" /\ currentPlayer = "b"
    /\ lastEvent = Event("click", "b")

\* C15: a call of handleHumanMove with a piece whose colour differs from
\* currentPlayer leaves board, current player and selected square unchanged,
\* executes no move and sets the error message; a call with a piece of
\* currentPlayer's colour executes that move for currentPlayer.
C15_HumanMoveRejectsOtherColour ==
    [][lastEvent'.kind = "onMove" =>
         IF getPieceColor(lastEvent'.piece) # currentPlayer
         THEN /\ UNCHANGED <<board, currentPlayer, selectedSquare, lastMove, moveCount>>
              /\ statusMessage' = Msg("Error: Cannot move opponent's piece.")
         ELSE /\ moveCount' = moveCount + 1
              /\ lastMove'.player = currentPlayer
              /\ lastMove'.piece = lastEvent'.piece
              /\ board' = MovedBoard(board, lastMove')
              /\ currentPlayer' = Other(currentPlayer)]_vars

\* a move of a Black piece has been refused on White's turn, with a square
\* still selected
C15_Witness ==
    /\ lastEvent = [Event("onMove", "w") EXCEPT !.piece = <<"b", "P">>]
    /\ statusMessage = Msg("Error: Cannot move opponent's piece.")
    /\ selectedSquare # NoSquare /\ currentPlayer = "w"

\* the number of pieces on a board
PieceCount(b) == Cardinality({sq \in Squares : At(b, sq) # Null})

\* C16: a step that executes a move puts the tag that stood on the origin,
\* which is the move's piece, on the destination, empties the origin, changes
\* both of these cells and no other, and clears the selection; the number of
\* pieces stays or drops by one.  The board changes in no other way than by
\* an executed move or by going back to INITIAL_BOARD.
C16_MoveChangesTwoCells ==
    /\ [][moveCount' = moveCount + 1 =>
            /\ lastMove'.piece = At(board, lastMove'.from)
            /\ At(board', lastMove'.to) = lastMove'.piece
            /\ At(board', lastMove'.from) = Null
            /\ {sq \in Squares : At(board', sq) # At(board, sq)}
                   = {lastMove'.from, lastMove'.to}
            /\ lastMove'.from # lastMove'.to
            /\ selectedSquare' = NoSquare
            /\ PieceCount(board') \in {PieceCount(board) - 1, PieceCount(board)}]_vars
    /\ [][board' # board => (moveCount' = moveCount + 1 \/ board' = INITIAL_BOARD)]_vars

\* a move to an empty square and then a capture have been executed
C16_Witness ==
    /\ moveCount = 2 /\ lastMove.captured # Null
    /\ At(board, lastMove.to) = lastMove.piece
    /\ PieceCount(board) = PieceCount(INITIAL_BOARD) - 1

\* C17: on one and the same board generateAIMove can return the same moves at
\* every difficulty, and returns the same move for the same value of
\* Math.random(); what differs between two difficulties is the delay of the
\* timeout and the status message of the AI effect.
C17_ChoiceIndependentOfDifficulty ==
    /\ fnCall = NoCall =>
           \A diff \in Difficulty :
               /\ generateAIMoveResults(fnBoard, diff)
                      = generateAIMoveResults(fnBoard, "Beginner")
               /\ \A k \in 0..(RandSteps - 1) :
                      generateAIMove(fnBoard, diff, k) = generateAIMove(fnBoard, "Beginner", k)
    /\ \A d1, d2 \in Difficulty :
           d1 # d2 =>
               /\ delay(d1) # delay(d2)
               /\ StatusAfterMove("ai", d1, "b", Msg("")) # StatusAfterMove("ai", d2, "b", Msg(""))

\* at the highest difficulty the AI returns a move of the last Black piece of
\* the start position, the h7 pawn
C17_Witness ==
    /\ fnCall.fn = "generateAIMove" /\ fnCall.difficulty = "Master"
    /\ fnCall.retMove # Null
    /\ fnCall.retMove.from = <<1, 7>> /\ fnBoard = INITIAL_BOARD

----------------------------------------------------------------------------
(* Further properties of the string-board app *)

\* C11: gameState.status is 'playing' in every reachable state, and every
\* pending getAIMove call was made with a non-empty list of legal moves, so
\* the stalemate branch of the AI effect is not taken.
C11_StatusAlwaysPlaying ==
    /\ gameState.status = "playing"
    /\ \A i \in 1..Len(aiEffects) : Len(aiEffects[i].legalMoves) > 0
    /\ \A i \in 1..Len(aiReplies) : Len(aiReplies[i].legalMoves) > 0

\* the promise of the AI effect has resolved while Black is still to move
C11_Witness ==
    /\ sMode = "AI" /\ sDifficulty # NoDifficulty
    /\ gameState.turn = "b" /\ aiEffects = <<>>

\* the two fields of a placeholder string that C18 speaks of: the piece
\* placement before the first blank and the side-to-move letter after it
Placement(str) == SubSeq(str, 1, 43)
SideToMove(str) == str[45]

\* a step that applies a move: the log grows by an entry of a move
MoveApplied ==
    /\ Len(gameLog') = Len(gameLog) + 1
    /\ gameState'.status = "playing"

\* C18: gameState.board is INITIAL_BOARD_STATE or the same string with side
\* to move 'b'; its side-to-move letter is gameState.turn; its piece placement
\* is that of INITIAL_BOARD_STATE; mockApplyMove applied to either string
\* yields the other one and the other turn, and a step that applies a move
\* leaves gameState equal to such a result.  (The flip is relative to the board
\* mockApplyMove is given: a reply of the AI that resolves after 'End Game' is
\* applied to the board of the ended game.)
C18_BoardIsPlaceholder ==
    /\ [](gameState.board \in {INITIAL_BOARD_STATE, BLACK_TO_MOVE_STATE})
    /\ [](SideToMove(gameState.board) = gameState.turn)
    /\ [](Placement(gameState.board) = Placement(INITIAL_BOARD_STATE))
    /\ [](\A b \in {INITIAL_BOARD_STATE, BLACK_TO_MOVE_STATE} :
             \A result \in {mockApplyMove(b, <<"e2", "-", "e4">>)} :
                 /\ result.turn \in {"w", "b"} \ {SideToMove(b)}
                 /\ SideToMove(result.board) = result.turn
                 /\ Placement(result.board) = Placement(b))
    /\ [][MoveApplied =>
            \E b \in {INITIAL_BOARD_STATE, BLACK_TO_MOVE_STATE} :
                gameState' = mockApplyMove(b, <<"e2", "-", "e4">>)]_vars

\* Black is to move after a move of White
C18_Witness ==
    /\ gameState.board = BLACK_TO_MOVE_STATE /\ gameState.turn = "b"
    /\ Len(gameLog) > 0

====
